---- MODULE Spec2Model ----
(***************************************************************************)
(* A model of quienny (src/quienny.cpp): the Quine-McCluskey prime         *)
(* implicant generator.  One run of 'main' is modelled: the input text is  *)
(* parsed line by line into the polynomial 'minterms', which is            *)
(* normalized, handed to 'generate' (one action per round of its loop),    *)
(* and the accumulated 'primes' are normalized and printed.                *)
(*                                                                         *)
(* The program exists in four builds, selected by the preprocessor:        *)
(*   FIXED      the bit-vector is one machine word (else vector<bool>);    *)
(*   NOPTIMIZE  'generate' compares all pairs (else blocks and slices).    *)
(* The build is chosen in the initial state and never changes.             *)
(*                                                                         *)
(* In the FIXED build a shift of the word by its width or more is          *)
(* undefined behaviour.  What such a shift does is a property of the build *)
(* too (variable 'oversized'): the count is taken modulo the width         *)
(* ("wrap", the shift instruction of x86), the count is taken modulo twice *)
(* the width and the bits of a count from the width on are shifted out     *)
(* ("zero", the shift instruction of PowerPC), or the process is stopped   *)
(* ("trap", a build with -fsanitize=undefined).                            *)
(***************************************************************************)
EXTENDS Naturals, Integers, Sequences, FiniteSets, TLC

VARIABLES
  FIXED,        \* build: -DFIXED=<word>
  NOPTIMIZE,    \* build: -DNOPTIMIZE
  oversized,    \* build: what a shift by >= the word's width does
  input,        \* the text of the input file, a sequence of characters
  pos,          \* number of characters read from 'input_file'
  lineno,       \* static size_t lineno
  variables,    \* static range variables (its size)
  m,            \* the monomial 'm' of polynomial::parse
  minterms,     \* main: polynomial minterms
  p,            \* main: tmp, the 'p' of generate
  primes,       \* main: polynomial primes
  round,        \* generate: size_t round
  calls,        \* the pairs (i, j) 'consensus' was called on in the last round
  compared,     \* static size_t compared
  output,       \* the lines written to 'output_file'
  message,      \* the text of the fatal parse error, "" if none
  exit_status,  \* the status the process ended with, -1 while it runs
  pc            \* where the run is

vars == <<FIXED, NOPTIMIZE, oversized, input, pos, lineno, variables, m,
          minterms, p, primes, round, calls, compared, output, message,
          exit_status, pc>>

(***************************************************************************)
(* Bounds of the model.                                                    *)
(***************************************************************************)
\* The width of the word of the FIXED build, in bits (8 * sizeof (word)).
WordBits == 2
\* The longest row (number of variables) of the row files.
MaxN == 3
\* The largest number of rows of a file whose rows come in any order.
MaxRows == 2
\* The largest number of rows of a file of distinct rows in ascending order.
MaxSet == 5
\* The longest file made of arbitrary characters.
MaxText == 5
\* Polynomials handed to 'normalize' alone: number of variables and length.
NormVars == 2
NormLen == 3

(***************************************************************************)
(* Characters.  "nl" is the new-line character, "x" stands for every       *)
(* character other than '0', '1' and new-line, and "EOF" is what 'getc'    *)
(* returns at the end of the file.                                         *)
(***************************************************************************)
Chars == {"0", "1", "nl", "x"}

\* read_char: the character at position 'at' and the state of the reader
\* after it has been read.
read_char(text, at, line) ==
  LET ch == IF at < Len(text) THEN text[at + 1] ELSE "EOF"
  IN  [ch |-> ch,
       pos |-> IF at < Len(text) THEN at + 1 ELSE at,
       lineno |-> IF ch = "nl" THEN line + 1 ELSE line]

(***************************************************************************)
(* The bit-vector of the FIXED build: 'word bits', a number below          *)
(* 2^WordBits.                                                             *)
(***************************************************************************)
word_modulus == 2 ^ WordBits

word_bit(w, k) == (w \div (2 ^ k)) % 2

RECURSIVE word_and_from(_, _, _)
word_and_from(a, b, k) ==
  IF k >= WordBits THEN 0
  ELSE (word_bit(a, k) * word_bit(b, k)) * (2 ^ k) + word_and_from(a, b, k + 1)

\* a & b
word_and(a, b) == word_and_from(a, b, 0)

\* ~a
word_not(a) == (word_modulus - 1) - a

\* a | b
word_or(a, b) == a + b - word_and(a, b)

\* a ^ b
word_xor(a, b) == word_or(a, b) - word_and(a, b)

\* (word) x << i, for x in {0, 1}.  For i >= WordBits the shift is undefined
\* behaviour and yields what the build makes of it (a "trap" build never
\* gets here: every caller stops before).
word_shift(x, i) ==
  IF i < WordBits THEN (x * (2 ^ i)) % word_modulus
  ELSE IF oversized = "wrap" THEN (x * (2 ^ (i % WordBits))) % word_modulus
  ELSE IF i % (2 * WordBits) < WordBits THEN (x * (2 ^ (i % (2 * WordBits)))) % word_modulus
  ELSE 0

\* Whether the shift by 'i' is the undefined one.
shift_undefined(i) == FIXED /\ i >= WordBits

fixed_get(bits, i) == word_and(bits, word_shift(1, i)) # 0

fixed_set(bits, i, value) ==
  LET mask == word_shift(1, i)
      bit == word_shift(IF value THEN 1 ELSE 0, i)
  IN  word_or(word_and(bits, word_not(mask)), bit)

\* bits < other.bits of the FIXED build
fixed_less(a, b) == a > b

\* bits > other.bits of the FIXED build
fixed_greater(a, b) == a < b

(***************************************************************************)
(* The bit-vector of the generic build: 'vector<bool> bits', a sequence of *)
(* booleans, index 0 first.                                                *)
(***************************************************************************)
vector_get(bits, i) == bits[i + 1]

vector_set(bits, i, value) == [bits EXCEPT ![i + 1] = value]

vector_add(bits, value) == Append(bits, value)

\* std::vector's operator<: lexicographical comparison with false < true.
RECURSIVE vector_less_from(_, _, _)
vector_less_from(a, b, k) ==
  IF k > Len(b) THEN FALSE
  ELSE IF k > Len(a) THEN TRUE
  ELSE IF a[k] # b[k] THEN (~a[k]) /\ b[k]
  ELSE vector_less_from(a, b, k + 1)

vector_less(a, b) == vector_less_from(a, b, 1)

vector_greater(a, b) == vector_less_from(b, a, 1)

(***************************************************************************)
(* struct bitvector, in the build at hand.                                 *)
(***************************************************************************)
bitvector_new == IF FIXED THEN 0 ELSE <<>>

bitvector_get(bits, i) == IF FIXED THEN fixed_get(bits, i) ELSE vector_get(bits, i)

bitvector_set(bits, i, value) ==
  IF FIXED THEN fixed_set(bits, i, value) ELSE vector_set(bits, i, value)

bitvector_add(bits, i, value) ==
  IF FIXED THEN fixed_set(bits, i, value) ELSE vector_add(bits, value)

bitvector_less(a, b) == IF FIXED THEN fixed_less(a, b) ELSE vector_less(a, b)

bitvector_greater(a, b) == IF FIXED THEN fixed_greater(a, b) ELSE vector_greater(a, b)

\* variables == max_variables: the generic build's max_variables, ~(size_t)0,
\* is above every number of variables a run reaches.
at_max_variables(n) == FIXED /\ n = WordBits

(***************************************************************************)
(* struct monomial: [ones, mask, values].                                  *)
(***************************************************************************)
monomial_new == [ones |-> 0, mask |-> bitvector_new, values |-> bitvector_new]

\* What a parse function hands back: 'status' is "true" or "false" (its
\* result), "parse_error" (parse_error was called, the process has exited) or
\* "trap" (an undefined shift stopped the process).
parse_result(status, mono, at, line, n, text) ==
  [status |-> status, m |-> mono, pos |-> at, lineno |-> line,
   variables |-> n, message |-> text]

\* The loop of monomial::parse_first; 'r' is the reader after 'ch' was read.
RECURSIVE parse_first_loop(_, _, _, _)
parse_first_loop(text, r, n, mono) ==
  IF r.ch = "nl" THEN parse_result("true", mono, r.pos, r.lineno, n, "")
  ELSE IF r.ch = "EOF" THEN
    parse_result("parse_error", mono, r.pos, r.lineno, n,
                 "unexpected end-of-file (expected '0' or '1' or new-line)")
  ELSE IF r.ch \notin {"0", "1"} THEN
    parse_result("parse_error", mono, r.pos, r.lineno, n,
                 "expected '0' or '1' or new-line")
  ELSE IF r.ch = "0" /\ at_max_variables(n) THEN
    parse_result("parse_error", mono, r.pos, r.lineno, n, "monomial too large")
  ELSE IF shift_undefined(n) /\ oversized = "trap" THEN
    parse_result("trap", mono, r.pos, r.lineno, n, "")
  ELSE
    LET value == (r.ch = "1")
        next_m == [ones |-> mono.ones + (IF value THEN 1 ELSE 0),
                   mask |-> bitvector_add(mono.mask, n, TRUE),
                   values |-> bitvector_add(mono.values, n, value)]
    IN  parse_first_loop(text, read_char(text, r.pos, r.lineno), n + 1, next_m)

\* monomial::parse_first, on the monomial 'mono' with 'variables' still 0.
parse_first(text, at, line, mono) ==
  LET r == read_char(text, at, line)
  IN  IF r.ch = "EOF" THEN parse_result("false", mono, r.pos, r.lineno, 0, "")
      ELSE parse_first_loop(text, r, 0, mono)

\* The loop of monomial::parse_remaining over 'for (auto i : variables)' and
\* the check of the new-line after it.
RECURSIVE parse_remaining_loop(_, _, _, _, _)
parse_remaining_loop(text, r, n, i, mono) ==
  IF i = n THEN
    IF r.ch = "nl" THEN parse_result("true", mono, r.pos, r.lineno, n, "")
    ELSE IF r.ch = "EOF" THEN
      parse_result("parse_error", mono, r.pos, r.lineno, n,
                   "unexpected end-of-file (expected new-line)")
    ELSE parse_result("parse_error", mono, r.pos, r.lineno, n, "expected new-line")
  ELSE IF r.ch = "EOF" THEN
    parse_result("parse_error", mono, r.pos, r.lineno, n,
                 "unexpected end-of-file (expected '0' or '1')")
  ELSE IF r.ch = "nl" THEN
    parse_result("parse_error", mono, r.pos, r.lineno - 1, n,
                 "unexpected new-line (expected '0' or '1')")
  ELSE IF r.ch \notin {"0", "1"} THEN
    parse_result("parse_error", mono, r.pos, r.lineno, n, "expected '0' or '1'")
  ELSE IF shift_undefined(i) /\ oversized = "trap" THEN
    parse_result("trap", mono, r.pos, r.lineno, n, "")
  ELSE
    LET value == (r.ch = "1")
        next_m == [ones |-> mono.ones + (IF value THEN 1 ELSE 0),
                   mask |-> bitvector_set(mono.mask, i, TRUE),
                   values |-> bitvector_set(mono.values, i, value)]
    IN  parse_remaining_loop(text, read_char(text, r.pos, r.lineno), n, i + 1, next_m)

\* monomial::parse_remaining, on the monomial 'mono' the previous line left.
parse_remaining(text, at, line, n, mono) ==
  LET r == read_char(text, at, line)
  IN  IF r.ch = "EOF" THEN parse_result("false", mono, r.pos, r.lineno, n, "")
      ELSE parse_remaining_loop(text, r, n, 0, [mono EXCEPT !.ones = 0])

\* monomial::operator==: the masks are the same and the values agree where
\* the mask is set.
monomial_equal(a, b, n) ==
  /\ a.mask = b.mask
  /\ \A i \in 0..(n - 1) :
       bitvector_get(a.mask, i) =>
         (bitvector_get(a.values, i) = bitvector_get(b.values, i))

\* operator< without its second test of 'ones': a monomial of more ones is
\* then ordered by its mask and values.  It is not an order: sorting under it
\* a sequence that was sorted under it can change the sequence.
monomial_less_without_greater_ones(a, b) ==
  IF a.ones < b.ones THEN TRUE
  ELSE IF bitvector_less(a.mask, b.mask) THEN TRUE
  ELSE IF bitvector_greater(a.mask, b.mask) THEN FALSE
  ELSE bitvector_less(a.values, b.values)

\* monomial::operator<: by 'ones', then 'mask', then 'values'.
monomial_less(a, b) ==
  IF a.ones < b.ones THEN TRUE
  ELSE IF a.ones > b.ones THEN FALSE
  ELSE IF bitvector_less(a.mask, b.mask) THEN TRUE
  ELSE IF bitvector_greater(a.mask, b.mask) THEN FALSE
  ELSE bitvector_less(a.values, b.values)

\* monomial::print: the line written for one monomial.
monomial_print(mono, n) ==
  [k \in 1..n |->
     IF bitvector_get(mono.mask, k - 1)
     THEN (IF bitvector_get(mono.values, k - 1) THEN "1" ELSE "0")
     ELSE "-"]

(***************************************************************************)
(* struct polynomial: 'vector<monomial> monomials', a sequence.            *)
(***************************************************************************)
\* The place stable_sort gives 'mono' in the sorted sequence 's': behind
\* every element that is not greater than it.
RECURSIVE sorted_insert(_, _, _)
sorted_insert(s, mono, k) ==
  IF k > Len(s) THEN Append(s, mono)
  ELSE IF monomial_less(mono, s[k])
  THEN SubSeq(s, 1, k - 1) \o <<mono>> \o SubSeq(s, k, Len(s))
  ELSE sorted_insert(s, mono, k + 1)

RECURSIVE stable_sort_from(_, _, _)
stable_sort_from(s, k, sorted) ==
  IF k > Len(s) THEN sorted
  ELSE stable_sort_from(s, k + 1, sorted_insert(sorted, s[k], 1))

\* std::stable_sort (monomials.begin (), monomials.end ())
stable_sort(s) == stable_sort_from(s, 1, <<>>)

\* The forward pass of normalize: '*i' is kept when it differs from 'j[-1]',
\* the monomial kept last.
RECURSIVE compact(_, _, _, _)
compact(s, i, kept, n) ==
  IF i > Len(s) THEN kept
  ELSE compact(s, i + 1,
               IF ~monomial_equal(s[i], kept[Len(kept)], n)
               THEN Append(kept, s[i]) ELSE kept,
               n)

\* polynomial::normalize
normalize(s, n) ==
  LET sorted == stable_sort(s)
  IN  IF sorted = <<>> THEN sorted ELSE compact(sorted, 2, <<sorted[1]>>, n)

\* polynomial::print
polynomial_print(s, n) == [k \in 1..Len(s) |-> monomial_print(s[k], n)]

(***************************************************************************)
(* monomial::match.  'status' is "true" or "false" (its result), "abort"   *)
(* (an assertion failed) or "trap" (the undefined shift of the FIXED build *)
(* stopped the process).                                                   *)
(***************************************************************************)
match_result(status, where) == [status |-> status, where |-> where]

\* while ((word)1 << where != difference) where++;
\* 'difference' is a power of two here.  The loop starts at 1: bit 0 is only
\* found by the undefined shifts from WordBits on.
RECURSIVE fixed_match_where(_, _)
fixed_match_where(difference, where) ==
  IF where >= WordBits /\ oversized = "trap" THEN match_result("trap", where)
  ELSE IF word_shift(1, where) # difference
  THEN fixed_match_where(difference, where + 1)
  ELSE match_result("true", where)

\* The FIXED version of match.
fixed_match(a, b) ==
  LET difference == word_xor(a.values, b.values)
  IN  IF word_and(difference, (difference - 1) % word_modulus) # 0
      THEN match_result("false", 0)
      ELSE IF difference = 0 THEN match_result("abort", 0)
      ELSE fixed_match_where(difference, 1)

\* The generic version of match: the loop 'for (auto i : variables)'.
RECURSIVE vector_match_loop(_, _, _, _, _, _)
vector_match_loop(a, b, n, i, matched, where) ==
  IF i = n THEN
    (IF matched THEN match_result("true", where) ELSE match_result("abort", where))
  ELSE
    LET this_value == vector_get(a.values, i)
        other_value == vector_get(b.values, i)
    IN  IF this_value = other_value
        THEN vector_match_loop(a, b, n, i + 1, matched, where)
        ELSE IF this_value /\ ~other_value THEN match_result("false", where)
        ELSE IF matched THEN match_result("false", where)
        ELSE vector_match_loop(a, b, n, i + 1, TRUE, i)

vector_match(a, b, n) == vector_match_loop(a, b, n, 0, FALSE, 0)

\* monomial::match, 'a' being 'this' and 'b' being 'other'.
match(a, b, noptimize, n) ==
  IF noptimize /\ ~(a.ones <= b.ones) THEN match_result("abort", 0)
  ELSE IF noptimize /\ a.ones + 1 # b.ones THEN match_result("false", 0)
  ELSE IF noptimize /\ a.mask # b.mask THEN match_result("false", 0)
  ELSE IF ~noptimize /\ (a.ones + 1 # b.ones \/ a.mask # b.mask)
  THEN match_result("abort", 0)
  ELSE IF FIXED THEN fixed_match(a, b)
  ELSE vector_match(a, b, n)

\* consensus: 'next' with the merged monomial added when 'mi' matches 'mj'.
consensus(mi, mj, next, noptimize, n) ==
  LET r == match(mi, mj, noptimize, n)
      k == r.where
  IN  IF r.status # "true" THEN [status |-> r.status, next |-> next]
      ELSE IF bitvector_get(mi.values, k) THEN [status |-> "abort", next |-> next]
      ELSE [status |-> "true",
            next |-> Append(next, [mi EXCEPT !.mask = bitvector_set(mi.mask, k, FALSE)])]

(***************************************************************************)
(* generate.  Which pairs (i, j) a round hands to 'consensus' does not     *)
(* depend on what 'consensus' answers, so a round is modelled as the       *)
(* sequence of its pairs, in the order of the loops, and the calls made on *)
(* them.  Indices start at 0 as in the code.                               *)
(***************************************************************************)
\* for (size_t j = j0; j != j1; j++): the pairs (i, j)
RECURSIVE row_pairs(_, _, _)
row_pairs(i, j0, j1) ==
  IF j0 = j1 THEN <<>> ELSE <<<<i, j0>>>> \o row_pairs(i, j0 + 1, j1)

\* for (size_t i = i0; i != i1; i++) for (size_t j = j0; j != j1; j++)
RECURSIVE cross_pairs(_, _, _, _)
cross_pairs(i0, i1, j0, j1) ==
  IF i0 = i1 THEN <<>>
  ELSE row_pairs(i0, j0, j1) \o cross_pairs(i0 + 1, i1, j0, j1)

\* NOPTIMIZE: for (i = 0; i + 1 != size; i++) for (j = i + 1; j != size; j++)
RECURSIVE all_pairs_from(_, _)
all_pairs_from(i, size) ==
  IF i + 1 = size THEN <<>>
  ELSE row_pairs(i, i + 1, size) \o all_pairs_from(i + 1, size)

all_pairs(poly) == all_pairs_from(0, Len(poly))

\* while (end != size && p[begin].ones == p[end].ones) end++;
RECURSIVE end_of_block(_, _, _)
end_of_block(poly, begin, end) ==
  IF end # Len(poly) /\ poly[begin + 1].ones = poly[end + 1].ones
  THEN end_of_block(poly, begin, end + 1)
  ELSE end

\* while (end != limit && p[begin].mask == p[end].mask) end++;
RECURSIVE end_of_slice(_, _, _, _)
end_of_slice(poly, begin, end, limit) ==
  IF end # limit /\ poly[begin + 1].mask = poly[end + 1].mask
  THEN end_of_slice(poly, begin, end + 1, limit)
  ELSE end

\* while (begin_second_slice != end_second_block &&
\*        p[begin_first_slice].mask != p[begin_second_slice].mask)
\*   begin_second_slice++;
RECURSIVE find_second_slice(_, _, _, _)
find_second_slice(poly, begin_first_slice, begin_second_slice, end_second_block) ==
  IF begin_second_slice # end_second_block
     /\ poly[begin_first_slice + 1].mask # poly[begin_second_slice + 1].mask
  THEN find_second_slice(poly, begin_first_slice, begin_second_slice + 1,
                         end_second_block)
  ELSE begin_second_slice

\* The loop over the slices of the first block: while (begin_first_slice !=
\* end_first_block).  'begin_second_slice' is kept from one slice to the next.
RECURSIVE slice_pairs(_, _, _, _, _)
slice_pairs(poly, begin_first_slice, begin_second_slice, end_first_block, end_second_block) ==
  IF begin_first_slice = end_first_block THEN <<>>
  ELSE
    LET end_first_slice ==
          end_of_slice(poly, begin_first_slice, begin_first_slice + 1, end_first_block)
        second == find_second_slice(poly, begin_first_slice, begin_second_slice,
                                    end_second_block)
        here ==
          IF second # end_second_block
          THEN cross_pairs(begin_first_slice, end_first_slice, second,
                           end_of_slice(poly, begin_first_slice, second + 1,
                                        end_second_block))
          ELSE <<>>
    IN  here \o slice_pairs(poly, end_first_slice, second, end_first_block,
                            end_second_block)

\* The loop over the pairs of subsequent blocks: while (end_first_block != size).
RECURSIVE block_pairs_from(_, _, _)
block_pairs_from(poly, begin_first_block, end_first_block) ==
  IF end_first_block = Len(poly) THEN <<>>
  ELSE
    LET begin_second_block == end_first_block
        end_second_block ==
          end_of_block(poly, begin_second_block, begin_second_block + 1)
        here ==
          IF poly[begin_first_block + 1].ones + 1 = poly[begin_second_block + 1].ones
          THEN slice_pairs(poly, begin_first_block, begin_second_block,
                           end_first_block, end_second_block)
          ELSE <<>>
    IN  here \o block_pairs_from(poly, begin_second_block, end_second_block)

\* The optimized version: the pairs of one round.
block_pairs(poly) == block_pairs_from(poly, 0, end_of_block(poly, 0, 1))

\* if (consensus (p[i], p[j], next)) prime[i] = prime[j] = false;
\* over the pairs from the k-th on.  The calls stop at the first one that
\* does not return.
RECURSIVE consensus_calls(_, _, _, _, _, _)
consensus_calls(poly, pairs, k, acc, noptimize, n) ==
  IF k > Len(pairs) THEN acc
  ELSE
    LET i == pairs[k][1]
        j == pairs[k][2]
        c == consensus(poly[i + 1], poly[j + 1], acc.next, noptimize, n)
        called == [acc EXCEPT !.calls = Append(@, pairs[k])]
    IN  IF c.status = "true"
        THEN consensus_calls(poly, pairs, k + 1,
               [called EXCEPT !.next = c.next,
                              !.prime = [@ EXCEPT ![i + 1] = FALSE, ![j + 1] = FALSE]],
               noptimize, n)
        ELSE IF c.status = "false"
        THEN consensus_calls(poly, pairs, k + 1, called, noptimize, n)
        ELSE [called EXCEPT !.status = c.status]

\* for (size_t i = 0; i != size; i++) if (prime[i]) primes.add (p[i]);
RECURSIVE add_primes(_, _, _, _)
add_primes(poly, prime, i, to) ==
  IF i > Len(poly) THEN to
  ELSE add_primes(poly, prime, i + 1, IF prime[i] THEN Append(to, poly[i]) ELSE to)

\* One round of the loop of generate, 'poly' not empty: the new 'p' and
\* 'primes', the calls of consensus made, and "ok" or how the round ended.
generate_round(poly, to, noptimize, n) ==
  LET pairs == IF noptimize THEN all_pairs(poly) ELSE block_pairs(poly)
      start == [status |-> "ok", next |-> <<>>,
                prime |-> [i \in 1..Len(poly) |-> TRUE], calls |-> <<>>]
      done == consensus_calls(poly, pairs, 1, start, noptimize, n)
  IN  IF done.status # "ok"
      THEN [status |-> done.status, p |-> poly, primes |-> to, calls |-> done.calls]
      ELSE [status |-> "ok", p |-> normalize(done.next, n),
            primes |-> add_primes(poly, done.prime, 1, to), calls |-> done.calls]

\* generate (p, primes): the rounds until 'p' is empty.
RECURSIVE generate(_, _, _, _)
generate(poly, to, noptimize, n) ==
  IF poly = <<>> THEN [status |-> "ok", primes |-> to]
  ELSE
    LET r == generate_round(poly, to, noptimize, n)
    IN  IF r.status # "ok" THEN [status |-> r.status, primes |-> r.primes]
        ELSE generate(r.p, r.primes, noptimize, n)

(***************************************************************************)
(* polynomial::parse and main, as functions of the input text.             *)
(***************************************************************************)
\* while (m.parse_remaining ()) add (m);
RECURSIVE parse_rest(_, _, _, _, _, _)
parse_rest(text, at, line, n, mono, monomials) ==
  LET r == parse_remaining(text, at, line, n, mono)
  IN  IF r.status = "true"
      THEN parse_rest(text, r.pos, r.lineno, n, r.m, Append(monomials, r.m))
      ELSE [status |-> IF r.status = "false" THEN "ok" ELSE r.status,
            monomials |-> monomials, variables |-> n, message |-> r.message]

\* polynomial::parse
polynomial_parse(text) ==
  LET r == parse_first(text, 0, 1, monomial_new)
  IN  IF r.status = "true"
      THEN parse_rest(text, r.pos, r.lineno, r.variables, r.m, <<r.m>>)
      ELSE [status |-> IF r.status = "false" THEN "ok" ELSE r.status,
            monomials |-> <<>>, variables |-> r.variables, message |-> r.message]

\* How a run ends: where, with which exit status, parse error and output.
run_result(where, status, text, lines) ==
  [pc |-> where, exit_status |-> status, message |-> text, output |-> lines]

\* main, on the input 'text' in the build at hand with the given generator.
run_main(text, noptimize) ==
  LET parsed == polynomial_parse(text)
      n == parsed.variables
      g == generate(normalize(parsed.monomials, n), <<>>, noptimize, n)
  IN  IF parsed.status = "parse_error"
      THEN run_result("exit", 1, parsed.message, <<>>)
      ELSE IF parsed.status # "ok" THEN run_result(parsed.status, -1, "", <<>>)
      ELSE IF g.status # "ok" THEN run_result(g.status, -1, "", <<>>)
      ELSE run_result("exit", 0, "", polynomial_print(normalize(g.primes, n), n))

(***************************************************************************)
(* The input files of the model.                                           *)
(***************************************************************************)
\* The rows of 'n' characters '0' or '1'.
Rows(n) == [1..n -> {"0", "1"}]

\* The text of the file with the given rows, each followed by a new-line.
RECURSIVE file_of(_)
file_of(rows) ==
  IF rows = <<>> THEN <<>> ELSE Head(rows) \o <<"nl">> \o file_of(Tail(rows))

\* The number a row is the binary numeral of.
RECURSIVE row_number(_)
row_number(row) ==
  IF row = <<>> THEN 0
  ELSE 2 * row_number(SubSeq(row, 1, Len(row) - 1))
       + (IF row[Len(row)] = "1" THEN 1 ELSE 0)

\* The rows of the set 'S' in ascending order.
RECURSIVE ascending(_)
ascending(S) ==
  IF S = {} THEN <<>>
  ELSE LET least == CHOOSE r \in S : \A q \in S : row_number(r) <= row_number(q)
       IN  <<least>> \o ascending(S \ {least})

\* Every text of at most MaxText characters.
FreeTexts == UNION {[1..k -> Chars] : k \in 0..MaxText}

\* At most MaxRows rows of the same length, in any order, repeated or not.
AnyOrderFiles ==
  UNION {{file_of(rows) : rows \in [1..k -> Rows(n)]} : n \in 0..MaxN, k \in 0..MaxRows}

\* At most MaxSet distinct rows of the same length, in ascending order.
AscendingFiles ==
  UNION {{file_of(ascending(S)) : S \in {T \in SUBSET Rows(n) : Cardinality(T) <= MaxSet}}
         : n \in 0..MaxN}

Inputs == FreeTexts \cup AnyOrderFiles \cup AscendingFiles

\* The builds.
Oversized(fixed) == IF fixed THEN {"wrap", "zero", "trap"} ELSE {"none"}

(***************************************************************************)
(* The run of main.                                                        *)
(***************************************************************************)
Init ==
  /\ FIXED \in BOOLEAN
  /\ NOPTIMIZE \in BOOLEAN
  /\ oversized \in Oversized(FIXED)
  /\ input \in Inputs
  /\ pos = 0
  /\ lineno = 1
  /\ variables = 0
  /\ m = monomial_new
  /\ minterms = <<>>
  /\ p = <<>>
  /\ primes = <<>>
  /\ round = 0
  /\ calls = <<>>
  /\ compared = 0
  /\ output = <<>>
  /\ message = ""
  /\ exit_status = -1
  /\ pc = "parse_first"

build == <<FIXED, NOPTIMIZE, oversized, input>>

\* What a call of a parse function leaves behind: the reader, the monomial,
\* the polynomial and, on a fatal error, the ended process.
parsed_line(r) ==
  /\ pos' = r.pos
  /\ lineno' = r.lineno
  /\ variables' = r.variables
  /\ m' = r.m
  /\ minterms' = IF r.status = "true" THEN Append(minterms, r.m) ELSE minterms
  /\ message' = r.message
  /\ exit_status' = IF r.status = "parse_error" THEN 1 ELSE exit_status
  /\ pc' = CASE r.status = "true" -> "parse_remaining"
             [] r.status = "false" -> "normalize"
             [] r.status = "parse_error" -> "exit"
             [] OTHER -> r.status
  /\ UNCHANGED <<build, p, primes, round, calls, compared, output>>

\* polynomial::parse: if (m.parse_first ()) add (m);
ParseFirst ==
  /\ pc = "parse_first"
  /\ parsed_line(parse_first(input, pos, lineno, m))

\* polynomial::parse: while (m.parse_remaining ()) add (m);
ParseRemaining ==
  /\ pc = "parse_remaining"
  /\ parsed_line(parse_remaining(input, pos, lineno, variables, m))

\* main: minterms.normalize (); polynomial primes, tmp = minterms;
NormalizeMinterms ==
  /\ pc = "normalize"
  /\ minterms' = normalize(minterms, variables)
  /\ p' = minterms'
  /\ primes' = <<>>
  /\ pc' = "generate"
  /\ UNCHANGED <<build, pos, lineno, variables, m, round, calls, compared, output,
                 message, exit_status>>

\* One round of generate: the body of 'while (!p.empty ())'.
generated(r) ==
  /\ round' = round + 1
  /\ calls' = r.calls
  /\ compared' = compared + Len(r.calls)
  /\ p' = r.p
  /\ primes' = r.primes
  /\ pc' = IF r.status = "ok" THEN "generate" ELSE r.status
  /\ UNCHANGED <<build, pos, lineno, variables, m, minterms, output, message,
                 exit_status>>

\* The round of the NOPTIMIZE build.
RoundAllPairs ==
  /\ pc = "generate"
  /\ p # <<>>
  /\ NOPTIMIZE
  /\ generated(generate_round(p, primes, TRUE, variables))

\* The round of the optimized build.
RoundBlocks ==
  /\ pc = "generate"
  /\ p # <<>>
  /\ ~NOPTIMIZE
  /\ generated(generate_round(p, primes, FALSE, variables))

\* generate returns as 'p' is empty; main: primes.normalize ();
NormalizePrimes ==
  /\ pc = "generate"
  /\ p = <<>>
  /\ primes' = normalize(primes, variables)
  /\ pc' = "print"
  /\ UNCHANGED <<build, pos, lineno, variables, m, minterms, p, round, calls,
                 compared, output, message, exit_status>>

\* main: primes.print (output_file); reset (argc); return 0;
PrintPrimes ==
  /\ pc = "print"
  /\ output' = polynomial_print(primes, variables)
  /\ exit_status' = 0
  /\ pc' = "exit"
  /\ UNCHANGED <<build, pos, lineno, variables, m, minterms, p, primes, round,
                 calls, compared, message>>

Next ==
  \/ ParseFirst
  \/ ParseRemaining
  \/ NormalizeMinterms
  \/ RoundAllPairs
  \/ RoundBlocks
  \/ NormalizePrimes
  \/ PrintPrimes

Spec == Init /\ [][Next]_vars

(***************************************************************************)
(* normalize alone: it is applied to a polynomial 'minterms' drawn from    *)
(* the polynomials of at most NormLen monomials over at most NormVars      *)
(* variables, and then once more to what it returned.  'p' is the          *)
(* polynomial after the first call and 'primes' after the second.          *)
(***************************************************************************)
\* The word whose bit i is v[i + 1].
RECURSIVE word_of(_)
word_of(v) ==
  IF v = <<>> THEN 0
  ELSE (IF v[1] THEN 1 ELSE 0) + 2 * word_of(SubSeq(v, 2, Len(v)))

\* The monomials over 'n' variables: a mask, values inside the mask, and
\* 'ones' counting them.
NormMonomials(n) ==
  {[ones |-> Cardinality({i \in 1..n : kv[2][i]}),
    mask |-> IF FIXED THEN word_of(kv[1]) ELSE kv[1],
    values |-> IF FIXED THEN word_of(kv[2]) ELSE kv[2]] :
     kv \in {x \in [1..n -> BOOLEAN] \X [1..n -> BOOLEAN] :
               \A i \in 1..n : x[2][i] => x[1][i]}}

InitNormalize ==
  /\ FIXED \in BOOLEAN
  /\ NOPTIMIZE = FALSE
  /\ oversized = IF FIXED THEN "wrap" ELSE "none"
  /\ input = <<>>
  /\ pos = 0
  /\ lineno = 1
  /\ variables \in {n \in 0..NormVars : FIXED => n <= WordBits}
  /\ m = monomial_new
  /\ minterms \in UNION {[1..k -> NormMonomials(variables)] : k \in 0..NormLen}
  /\ p = <<>>
  /\ primes = <<>>
  /\ round = 0
  /\ calls = <<>>
  /\ compared = 0
  /\ output = <<>>
  /\ message = ""
  /\ exit_status = -1
  /\ pc = "normalize_given"

\* normalize, applied to the polynomial as given.
NormalizeGiven ==
  /\ pc = "normalize_given"
  /\ p' = normalize(minterms, variables)
  /\ pc' = "normalize_again"
  /\ UNCHANGED <<build, pos, lineno, variables, m, minterms, primes, round, calls,
                 compared, output, message, exit_status>>

\* normalize, applied to what normalize returned.
NormalizeAgain ==
  /\ pc = "normalize_again"
  /\ primes' = normalize(p, variables)
  /\ pc' = "normalized_twice"
  /\ UNCHANGED <<build, pos, lineno, variables, m, minterms, p, round, calls,
                 compared, output, message, exit_status>>

NextNormalize ==
  \/ NormalizeGiven
  \/ NormalizeAgain

SpecNormalize == InitNormalize /\ [][NextNormalize]_vars

(***************************************************************************)
(* What the properties speak of: the rows of the input text, the monomials *)
(* written as lines of '0', '1' and '-', and the minterms they cover.      *)
(***************************************************************************)
\* The lines of 'text', each ended by a new-line, and what follows the last.
RECURSIVE split_lines(_, _, _)
split_lines(text, k, line) ==
  IF k > Len(text) THEN [lines |-> <<>>, rest |-> line]
  ELSE IF text[k] = "nl"
  THEN LET r == split_lines(text, k + 1, <<>>)
       IN  [lines |-> <<line>> \o r.lines, rest |-> r.rest]
  ELSE split_lines(text, k + 1, Append(line, text[k]))

InputLines(text) == split_lines(text, 1, <<>>).lines

\* The input format: lines of '0' and '1' of one length, each ended by a
\* new-line.
WellFormed(text) ==
  LET s == split_lines(text, 1, <<>>)
  IN  /\ s.rest = <<>>
      /\ \A k \in 1..Len(s.lines) :
           /\ Len(s.lines[k]) = Len(s.lines[1])
           /\ \A i \in 1..Len(s.lines[k]) : s.lines[k][i] \in {"0", "1"}

\* The set of distinct rows of a well-formed text, and their length.
RowSet(text) == {InputLines(text)[k] : k \in 1..Len(InputLines(text))}

RowLength(text) == IF InputLines(text) = <<>> THEN 0 ELSE Len(InputLines(text)[1])

\* The number of '0' and '1' the text starts with.
RECURSIVE LeadingBits(_, _)
LeadingBits(text, k) ==
  IF k <= Len(text) /\ text[k] \in {"0", "1"} THEN 1 + LeadingBits(text, k + 1) ELSE 0

\* The minterms a line of '0', '1' and '-' covers.
Covered(line) ==
  {r \in Rows(Len(line)) : \A k \in 1..Len(line) : line[k] = "-" \/ line[k] = r[k]}

\* The set of the elements of a sequence.
Range(s) == {s[k] : k \in 1..Len(s)}

\* The prime implicants of the function of 'n' variables whose on-set is S.
PrimeImplicants(S, n) ==
  LET Implicants == {c \in [1..n -> {"0", "1", "-"}] : Covered(c) \subseteq S}
  IN  {c \in Implicants :
         \A d \in Implicants : Covered(c) \subseteq Covered(d) => d = c}

\* a < b in the order that compares get(0), get(1), ... of two bit-vectors.
LexLess(a, b, n) ==
  \E i \in 0..(n - 1) :
    /\ \A j \in 0..(i - 1) : bitvector_get(a, j) = bitvector_get(b, j)
    /\ ~bitvector_get(a, i)
    /\ bitvector_get(b, i)

\* The run has ended with what main prints.
Printed == pc = "exit" /\ exit_status = 0

(***************************************************************************)
(* The properties.                                                         *)
(***************************************************************************)
\* C1: the optimized generator and the all-pairs generator, started from the
\* same normalized polynomial, end with the same normalized 'primes'.
C1_SameAsOtherGenerator ==
  pc = "print" =>
    LET other == generate(minterms, <<>>, ~NOPTIMIZE, variables)
    IN  other.status = "ok" /\ primes = normalize(other.primes, variables)

\* C2: the lines printed are exactly the prime implicants of the function
\* whose on-set is the set of input rows, each printed once.  The rows fit
\* the word of the FIXED build, so that every row is stored as it was read.
C2_PrintsThePrimeImplicants ==
  (Printed /\ (FIXED => variables <= WordBits)) =>
    /\ Range(output) = PrimeImplicants(RowSet(input), RowLength(input))
    /\ Len(output) = Cardinality(Range(output))

\* C3: the minterms covered by the printed lines are the input rows: none is
\* gained and none is lost.
C3_CoversTheInput ==
  Printed => UNION {Covered(output[k]) : k \in 1..Len(output)} = RowSet(input)

\* C4: in the FIXED build a first line of more '0'/'1' characters than the
\* word has bits ends the run with the parse error "monomial too large".
C4_TooLargeIsRejected ==
  (FIXED /\ LeadingBits(input, 1) > WordBits /\ pc # "parse_first") =>
    (pc = "exit" /\ exit_status = 1 /\ message = "monomial too large")

\* C5: the run of a well-formed input ends as the run of its distinct rows in
\* ascending order ends, and after parse and normalize every distinct row is
\* stored once.
C5_OnlyTheRowSetCounts ==
  WellFormed(input) =>
    /\ (pc = "generate" /\ round = 0) => Len(minterms) = Cardinality(RowSet(input))
    /\ pc \in {"exit", "trap", "abort"} =>
         run_result(pc, exit_status, message, output)
           = run_main(file_of(ascending(RowSet(input))), NOPTIMIZE)

\* C6: in both builds operator< of the bit-vector is the order that compares
\* get(0), get(1), ..., get(N-1), index 0 first: it orders the masks and the
\* values of any two stored monomials as that order does.
C6_LessIsLexicographic ==
  (FIXED => variables <= WordBits) =>
    \A a, b \in Range(minterms) \cup Range(primes) :
      /\ bitvector_less(a.mask, b.mask) = LexLess(a.mask, b.mask, variables)
      /\ bitvector_less(a.values, b.values) = LexLess(a.values, b.values, variables)

\* C7: normalize applied to what normalize returned returns the same
\* sequence of monomials.
C7_NormalizeIsIdempotent == pc = "normalized_twice" => primes = p

\* C7, witness: normalize removed a duplicate and reordered what is left,
\* and was applied again.
C7_Witness ==
  /\ pc = "normalized_twice"
  /\ Len(p) = 2
  /\ Len(minterms) = 3
  /\ p # SubSeq(minterms, 1, 2)
  /\ p # SubSeq(minterms, 2, 3)

\* C8: generate ends: once entered it is in its loop or has returned to main,
\* never stopped inside a round, and its loop runs at most N + 1 rounds.
C8_GenerateEnds ==
  (pc = "generate" \/ round > 0) =>
    /\ round <= variables + 1
    /\ pc \in {"generate", "print", "exit"}

\* C9: the run of a malformed input writes no line and, once past parsing,
\* has ended with a fatal parse error and exit status 1.
C9_MalformedIsFatal ==
  ~WellFormed(input) =>
    /\ output = <<>>
    /\ \/ pc \in {"parse_first", "parse_remaining"}
       \/ pc = "exit" /\ exit_status = 1 /\ message # ""

\* C10: a round of the optimized generator that ran to its end has called
\* consensus on every pair (i, j) of monomials of 'p' with the same mask and
\* ones(i) + 1 = ones(j), that is on the whole cross product of every two
\* same-mask slices of adjacent blocks.
C10_EverySlicePairCompared ==
  [][(RoundBlocks /\ pc' = "generate") =>
       \A i, j \in 0..(Len(p) - 1) :
         (p[i + 1].ones + 1 = p[j + 1].ones /\ p[i + 1].mask = p[j + 1].mask)
           => <<i, j>> \in Range(calls')]_vars

\* The positions 0..n-1 that are in the mask of 'a' and at which the values
\* of 'a' and 'b' differ.
Differing(a, b, n) ==
  {k \in 0..(n - 1) :
     /\ bitvector_get(a.mask, k)
     /\ bitvector_get(a.values, k) # bitvector_get(b.values, k)}

\* The pairs of indices of 'p' that match may be called on in either
\* generator: the same mask, and one more of 'ones' in the second.
Matchable ==
  {ij \in (1..Len(p)) \X (1..Len(p)) :
     /\ p[ij[1]].mask = p[ij[2]].mask
     /\ p[ij[1]].ones + 1 = p[ij[2]].ones}

\* C11: for two monomials of 'p' with the same mask and ones + 1 = ones of the
\* other, match returns true exactly if their values differ in exactly one
\* position of the mask, and 'where' is then that position.  The rows fit the
\* word of the FIXED build, so every position is a bit of the word.
C11_MatchFindsThePosition ==
  (pc = "generate" /\ (FIXED => variables <= WordBits)) =>
    \A ij \in Matchable :
      LET a == p[ij[1]]
          b == p[ij[2]]
          r == match(a, b, NOPTIMIZE, variables)
      IN  /\ (r.status = "true") = (Cardinality(Differing(a, b, variables)) = 1)
          /\ r.status = "true" => r.where \in Differing(a, b, variables)

\* The positions 0..n-1 at which the bit-vector 'bits' is true.
TruePositions(bits, n) == {i \in 0..(n - 1) : bitvector_get(bits, i)}

\* ones == the number of positions at which mask and values are both true.
OnesCounted(mono, n) ==
  mono.ones = Cardinality(TruePositions(mono.mask, n) \cap TruePositions(mono.values, n))

\* C12: every monomial of minterms, p and primes has 'ones' equal to the
\* number of positions where its mask and its value are true; a successful
\* consensus adds a copy of mi with exactly one position of the mask cleared
\* and 'ones' unchanged, and a failed one leaves 'next' as it was.
C12_OnesIsThePopcount ==
  /\ \A mono \in Range(minterms) \cup Range(p) \cup Range(primes) :
       OnesCounted(mono, variables)
  /\ pc = "generate" =>
       \A ij \in Matchable :
         LET mi == p[ij[1]]
             mj == p[ij[2]]
             c == consensus(mi, mj, <<mj>>, NOPTIMIZE, variables)
             merged == c.next[2]
         IN  /\ c.status = "false" => c.next = <<mj>>
             /\ c.status = "true" =>
                  /\ Len(c.next) = 2 /\ c.next[1] = mj
                  /\ merged.ones = mi.ones
                  /\ merged.values = mi.values
                  /\ TruePositions(merged.mask, variables)
                       \subseteq TruePositions(mi.mask, variables)
                  /\ Cardinality(TruePositions(mi.mask, variables)
                                   \ TruePositions(merged.mask, variables)) = 1
                  /\ OnesCounted(merged, variables)

\* values is false at every position where mask is false.
NoValueOutsideMask(mono, n) ==
  TruePositions(mono.values, n) \subseteq TruePositions(mono.mask, n)

\* No two monomials at different places of 's' are equal by operator==.
NoEqualPair(s, n) ==
  \A i, j \in 1..Len(s) : i # j => ~monomial_equal(s[i], s[j], n)

\* C13: in every monomial of minterms, p and primes the value is false where
\* the mask is false; operator< finds two of them unordered exactly if
\* operator== finds them equal, match never answers true on two that are
\* equal, and no polynomial that normalize has returned holds two equal
\* monomials.
C13_ValuesWithinMask ==
  LET stored == Range(minterms) \cup Range(p) \cup Range(primes)
  IN  /\ \A mono \in stored : NoValueOutsideMask(mono, variables)
      /\ \A a, b \in stored :
           monomial_equal(a, b, variables)
             = (~monomial_less(a, b) /\ ~monomial_less(b, a))
      /\ pc = "generate" =>
           \A ij \in Matchable :
             match(p[ij[1]], p[ij[2]], NOPTIMIZE, variables).status = "true"
               => ~monomial_equal(p[ij[1]], p[ij[2]], variables)
      /\ (pc \in {"generate", "print"} \/ Printed) => NoEqualPair(minterms, variables)
      /\ pc = "generate" => NoEqualPair(p, variables)
      /\ (pc = "print" \/ Printed) => NoEqualPair(primes, variables)

====
